---- MODULE Spec2Model ----
(***************************************************************************)
(* Slot and appointment lifecycle of the agendaai booking application.     *)
(*                                                                         *)
(* The repository holds two data-access modules with the same exported     *)
(* names.  Operations of src/unnamed/part_000 carry the suffix 0, those of *)
(* src/unnamed/part_001 the suffix 1:                                      *)
(*   createAppointment0       slot write, insert, compensating slot write  *)
(*   createAppointment1       insert, slot write                           *)
(*   updateAppointmentStatus0 status write only                            *)
(*   updateAppointmentStatus1 read, status write, conditional slot write   *)
(*                                                                         *)
(* Every `await supabase...` is one request to the hosted store and one    *)
(* atomic step of the model; between two requests of a call the requests   *)
(* of other calls may be served.  A request either succeeds or comes back  *)
(* with `error` set (the { data, error } result the code destructures).    *)
(*                                                                         *)
(* The administrative functions (slot generation and listing, slot         *)
(* deletion from the Schedule page, associations, professionals, services, *)
(* users) are followed in specifications of their own: ScheduleSpec,       *)
(* BulkSpec, FetchSpec, AdminSpec and CatalogSpec.  So are the pages and   *)
(* hooks over the tenants and identities: CancelSpec (cancellations that   *)
(* overlap a re-booking), CreateSlotsSpec (slot creation from the Schedule *)
(* page), IdentitySpec (createUserForCompany), SuccessSpec (the            *)
(* appointment-success page, with the fairness of its one request),        *)
(* AuthSpec (useAuth), PlanSpec and SlugSpec (the companies page).         *)
(***************************************************************************)
EXTENDS Integers, Sequences, FiniteSets, TLC

\* Bounds of the model.
MaxSlots == 2
MaxAppointments == 2
MaxClients == 2

\* The calendar, scaled: a day has HoursPerDay hours of MinutesPerHour
\* minutes, and the runs cover the days 0..MaxDays-1.
HoursPerDay == 2
MinutesPerHour == 2
MaxDays == 8
\* Rows one createAvailableSlotsBulk call generates.
MaxBulkRows == 4
\* Rows of available_slots in the runs of fetchAvailableSlots.
MaxFetchRows == 3
\* Entries of the timeRanges argument.
MaxRanges == 2
MaxProfessionals == 2
MaxServices == 2
MaxUsers == 2
MaxEmails == 2
MaxChecks == 2
MaxAdmins == 2
MaxCompanies == 2
MaxSlugs == 2
MaxClock == 3
TicksPerDay == 2

SlotIds == 1..MaxSlots
ProfessionalIds == 1..MaxProfessionals
ServiceIds == 1..MaxServices
AuthIds == 1..MaxUsers
AppointmentIds == 1..MaxAppointments
Clients == 1..MaxClients

\* status: 'confirmed' | 'cancelled' | 'completed'
Statuses == {"confirmed", "cancelled", "completed"}

VARIABLES
    available_slots,  \* table available_slots: id -> [is_available] (with
                      \* professional_id, start_time, end_time where listed)
    appointments,     \* table appointments: row id = position, [slot_id, status]
    pc,               \* per caller: the request its call issues next
    call,             \* per caller: arguments and locals of the call in progress
    result,           \* per caller: what the finished call returned or threw
    faulty,           \* whether the store of this run can answer with an error
    removed_slots,    \* rows deleted from available_slots, as they were when deleted
    schedule,         \* state of the admin Schedule page
    last,             \* the latest administrative call: arguments, locals, result
    professional_services,  \* join table: <<professional_id, service_id>> rows
    professionals,    \* table professionals: id -> [active, present]
    services,         \* table services: id -> [active, present]
    users,            \* table users: the auth_id of each row
    auth_users,       \* the identity service: its auth users, [id, email]
    success_page,     \* state of the appointment-success page
    companies,        \* table companies: id -> [slug, plan_expiry_date, is_active]
    company_page,     \* per administrator: state of the companies page
    clock,            \* the current time, new Date()
    auth              \* state of useAuth, with the session and localStorage

\* What the booking calls leave alone.
\* The identities and the tenants.
tenancy == <<auth_users, success_page, companies, company_page, clock, auth>>

\* The tables and page state of the schedule and the catalog.
scheduling == <<removed_slots, schedule, last, professional_services,
                professionals, services, users>>

admin == <<scheduling, tenancy>>

\* What the administrative calls leave alone.
booking == <<appointments, pc, call, result>>

vars == <<available_slots, appointments, pc, call, result, faulty, removed_slots,
          schedule, last, professional_services, professionals, services, users,
          tenancy>>

NoResult == [outcome |-> "none", success |-> FALSE, appointmentId |-> 0, error |-> "none"]

\* fn, slotId, id, status: the function called and its arguments.
\* appointment: the row read by updateAppointmentStatus1 (local `appointment`).
\* data: id of the row returned by the insert (local `data`).
\* failed: the requests of this call the store answered with an error.
\* pre: the tables as they were when the call was issued; kept for calls
\*      that do not overlap, where a postcondition can refer to it.
\* seen: what the caller of createAppointment saw when it chose the slot.
NoCall ==
    [fn |-> "none", slotId |-> 0, id |-> 0, status |-> "none",
     appointment |-> [slot_id |-> 0, status |-> "none"], data |-> 0,
     failed |-> {}, pre |-> [slots |-> <<>>, appts |-> <<>>],
     seen |-> [available |-> FALSE, rows |-> 0]]

\* timeSlots: the listing the page last received, slot id -> is_available.
\* selectedTimeSlot: id of the slot the delete dialog was opened for (0: null).
\* pc: the request the page waits for.
\* isDeleteDialogOpen: whether the delete dialog is shown.
NoSchedule ==
    [timeSlots |-> [s \in {} |-> TRUE], selectedTimeSlot |-> 0,
     isDeleteDialogOpen |-> FALSE, pc |-> "idle"]

\* The appointment-success page before it is opened: useState(null),
\* useState(true), useState(null).  id: the `id` search parameter, 0 when
\* absent.  appointment: id of the row shown, 0 for null.
NoSuccessPage ==
    [pc |-> "closed", id |-> 0, appointment |-> 0, loading |-> TRUE,
     error |-> "none"]

\* The administrators with the companies page open.
Admins == 1..MaxAdmins

\* plan_expiry_date null.
NoExpiry == 0 - 1

\* The companies page as it is mounted: useState([]), useState(false),
\* useState(null), useState('').  companies: the listing, id -> slug;
\* dialog: which of isDialogOpen / isPlanDialogOpen is true; editingCompany:
\* the listed row the dialog was opened for, id 0 for null; slug: the slug
\* field ('' is 0); pc: the request the page waits for.
NoCompanyPage ==
    [companies |-> <<>>, dialog |-> "none",
     editingCompany |-> [id |-> 0, slug |-> 0], slug |-> 0, pc |-> "idle"]

\* A checkAuth that is not running.  session: the id of the user of the
\* session it got; storedUserType: its local of that name.
NoCheck == [pc |-> "none", session |-> 0, storedUserType |-> "null"]

\* useAuth before it is mounted: useState(false), useState(null),
\* useState(true).  session: the session of the supabase client, the id of
\* its user or 0; stored: localStorage 'userType'; pathname: where the
\* window is; signedOut: the listener has handled SIGNED_OUT and no SIGNED_IN
\* has come since; checks: the checkAuth calls in progress.
NoAuth ==
    [mounted |-> FALSE, session |-> 0, isAuthenticated |-> FALSE,
     userType |-> "null", loading |-> TRUE, stored |-> "null",
     pathname |-> "other", signedOut |-> FALSE,
     checks |-> [i \in 1..MaxChecks |-> NoCheck]]

\* No administrative call yet: nothing is in progress.
NoLast == [fn |-> "none", pc |-> "done", outcome |-> "none"]

Init ==
    /\ available_slots = <<>>
    /\ appointments = <<>>
    /\ pc = [p \in Clients |-> "idle"]
    /\ call = [p \in Clients |-> NoCall]
    /\ result = [p \in Clients |-> NoResult]
    /\ faulty \in BOOLEAN
    /\ removed_slots = {}
    /\ schedule = NoSchedule
    /\ last = NoLast
    /\ professional_services = {}
    /\ professionals = <<>>
    /\ services = <<>>
    /\ users = {}
    /\ auth_users = {}
    /\ success_page = NoSuccessPage
    /\ companies = <<>>
    /\ company_page = [a \in Admins |-> NoCompanyPage]
    /\ clock = 0
    /\ auth = NoAuth

(***************************************************************************)
(* Store requests                                                          *)
(***************************************************************************)

\* What the store can answer to a request: TRUE is success, FALSE is
\* { error } set.  A run with a store that never fails keeps faulty = FALSE.
Responses == IF faulty THEN BOOLEAN ELSE {TRUE}

\* .from('available_slots').insert({..., is_available: true}): the store
\* assigns a fresh id.
SlotInsert(slots) ==
    Append(slots, [is_available |-> TRUE])

\* A filter that matches no row.
SlotUpdateNoMatch(slots, slotId, v) == slots

\* .from('available_slots').update({ is_available: v }).eq('id', slotId):
\* an unconditional write of the matching row; no row matching is no error.
SlotUpdate(slots, slotId, v) ==
    [s \in DOMAIN slots |->
        IF s = slotId THEN [slots[s] EXCEPT !.is_available = v] ELSE slots[s]]

\* An upsert keyed on slot_id: the row of a booked slot is replaced.
AppointmentUpsertBySlot(appts, slotId) ==
    IF \E a \in DOMAIN appts : appts[a].slot_id = slotId
    THEN [a \in DOMAIN appts |->
            IF appts[a].slot_id = slotId
            THEN [slot_id |-> slotId, status |-> "confirmed"]
            ELSE appts[a]]
    ELSE Append(appts, [slot_id |-> slotId, status |-> "confirmed"])

\* .from('appointments').insert({..., slot_id: slotId, status: 'confirmed'})
AppointmentInsert(appts, slotId) ==
    Append(appts, [slot_id |-> slotId, status |-> "confirmed"])

\* A status write that keeps 'completed' and 'cancelled' rows as they are.
StatusUpdateTerminal(appts, id, status) ==
    [a \in DOMAIN appts |->
        IF a = id /\ appts[a].status = "confirmed"
        THEN [appts[a] EXCEPT !.status = status]
        ELSE appts[a]]

\* .from('appointments').update({ status }).eq('id', id)
StatusUpdate(appts, id, status) ==
    [a \in DOMAIN appts |->
        IF a = id THEN [appts[a] EXCEPT !.status = status] ELSE appts[a]]

(***************************************************************************)
(* Calls                                                                   *)
(***************************************************************************)

\* seq: calls do not overlap (a call is issued only when no other is in
\* progress or unreturned).
MayCall(p, seq) ==
    /\ pc[p] = "idle"
    /\ seq => \A q \in Clients : pc[q] = "idle"

\* Rows the calls in progress may still insert; with the rows present they
\* stay within MaxAppointments.
Inserting == {q \in Clients : pc[q] \in {"c0_slot", "c0_insert", "c1_insert"}}

RoomForAppointment == Len(appointments) + Cardinality(Inserting) < MaxAppointments

\* The tables as the call finds them.
Pre(seq) ==
    IF seq THEN [slots |-> available_slots, appts |-> appointments] ELSE NoCall.pre

\* What the caller of createAppointment saw of the store when it chose
\* slotId: the slot's flag, and how many appointment rows there were.
Seen(slotId) ==
    [available |-> available_slots[slotId].is_available, rows |-> Len(appointments)]

Issue(p, first, c) ==
    /\ pc' = [pc EXCEPT ![p] = first]
    /\ call' = [call EXCEPT ![p] = c]
    /\ UNCHANGED <<faulty, admin, available_slots, appointments, result>>

Finish(p, res) ==
    /\ pc' = [pc EXCEPT ![p] = "done"]
    /\ result' = [result EXCEPT ![p] = res]

Fail(p, req) == [call EXCEPT ![p].failed = @ \cup {req}]

\* The caller consumes the result; the call is over.
Return(p) ==
    /\ pc[p] = "done"
    /\ pc' = [pc EXCEPT ![p] = "idle"]
    /\ call' = [call EXCEPT ![p] = NoCall]
    /\ result' = [result EXCEPT ![p] = NoResult]
    /\ UNCHANGED <<faulty, admin, available_slots, appointments>>

\* createAvailableSlot: one insert; a failed insert changes nothing.
createAvailableSlot(seq) ==
    /\ seq => \A q \in Clients : pc[q] = "idle"
    /\ Len(available_slots) < MaxSlots
    /\ available_slots' = SlotInsert(available_slots)
    /\ UNCHANGED <<faulty, admin, appointments, pc, call, result>>

---------------------------------------------------------------------------
\* createAppointment of part_000: slot write, insert, compensating write.

createAppointment0_call(p, seq) ==
    /\ MayCall(p, seq)
    /\ RoomForAppointment
    /\ \E slotId \in DOMAIN available_slots :
          Issue(p, "c0_slot",
                [NoCall EXCEPT !.fn = "createAppointment0", !.slotId = slotId,
                               !.seen = Seen(slotId), !.pre = Pre(seq)])

\* const { error: slotError } = await ...update({ is_available: false })
c0_slot(p) ==
    /\ pc[p] = "c0_slot"
    /\ \E ok \in Responses :
          IF ok
          THEN /\ available_slots' = SlotUpdate(available_slots, call[p].slotId, FALSE)
               /\ pc' = [pc EXCEPT ![p] = "c0_insert"]
               /\ UNCHANGED <<faulty, admin, appointments, call, result>>
          ELSE /\ Finish(p, [NoResult EXCEPT !.outcome = "returned",
                                             !.error = "slotError"])
               /\ call' = Fail(p, "slot")
               /\ UNCHANGED <<faulty, admin, available_slots, appointments>>

\* const { data, error } = await ...insert([...]).select()
c0_insert(p) ==
    /\ pc[p] = "c0_insert"
    /\ \E ok \in Responses :
          IF ok
          THEN /\ appointments' = AppointmentInsert(appointments, call[p].slotId)
               /\ call' = [call EXCEPT ![p].data = Len(appointments')]
               /\ Finish(p, [NoResult EXCEPT !.outcome = "returned",
                                             !.success = TRUE,
                                             !.appointmentId = Len(appointments')])
               /\ UNCHANGED <<faulty, admin, available_slots>>
          ELSE /\ pc' = [pc EXCEPT ![p] = "c0_revert"]
               /\ call' = Fail(p, "insert")
               /\ UNCHANGED <<faulty, admin, available_slots, appointments, result>>

\* Written to the slot by the compensation: update({ is_available: true }).
RevertValueFalse == FALSE

RevertValue == TRUE

\* return { success: false, error }: `error` is the error of the insert,
\* whatever the compensating write answered.
CompensationResultPropagating(revertOk) ==
    [NoResult EXCEPT !.outcome = "returned",
                     !.error = IF revertOk THEN "insertError" ELSE "revertError"]

CompensationResult(revertOk) ==
    [NoResult EXCEPT !.outcome = "returned", !.error = "insertError"]

\* await ...update({ is_available: true }).eq('id', slotId); the result of
\* this request is not looked at.
c0_revert(p) ==
    /\ pc[p] = "c0_revert"
    /\ \E ok \in Responses :
          /\ IF ok
             THEN /\ available_slots' = SlotUpdate(available_slots, call[p].slotId, RevertValue)
                  /\ UNCHANGED <<faulty, admin, call>>
             ELSE /\ call' = Fail(p, "revert")
                  /\ UNCHANGED <<faulty, admin, available_slots>>
          /\ Finish(p, CompensationResult(ok))
          /\ UNCHANGED <<faulty, admin, appointments>>

---------------------------------------------------------------------------
\* createAppointment of part_001: insert, then slot write.

createAppointment1_call(p, seq) ==
    /\ MayCall(p, seq)
    /\ RoomForAppointment
    /\ \E slotId \in DOMAIN available_slots :
          Issue(p, "c1_insert",
                [NoCall EXCEPT !.fn = "createAppointment1", !.slotId = slotId,
                               !.seen = Seen(slotId), !.pre = Pre(seq)])

\* const { data, error } = await ...insert(appointmentData).select().single();
\* if (error) throw error  -> catch: return { success: false }
c1_insert(p) ==
    /\ pc[p] = "c1_insert"
    /\ \E ok \in Responses :
          IF ok
          THEN /\ appointments' = AppointmentInsert(appointments, call[p].slotId)
               /\ call' = [call EXCEPT ![p].data = Len(appointments')]
               /\ pc' = [pc EXCEPT ![p] = "c1_slot"]
               /\ UNCHANGED <<faulty, admin, available_slots, result>>
          ELSE /\ Finish(p, [NoResult EXCEPT !.outcome = "returned"])
               /\ call' = Fail(p, "insert")
               /\ UNCHANGED <<faulty, admin, available_slots, appointments>>

\* const { error: slotError } = await ...update({ is_available: false });
\* if (slotError) throw slotError  -> catch: return { success: false }
c1_slot(p) ==
    /\ pc[p] = "c1_slot"
    /\ \E ok \in Responses :
          IF ok
          THEN /\ available_slots' = SlotUpdate(available_slots, call[p].slotId, FALSE)
               /\ Finish(p, [NoResult EXCEPT !.outcome = "returned",
                                             !.success = TRUE,
                                             !.appointmentId = call[p].data])
               /\ UNCHANGED <<faulty, admin, appointments, call>>
          ELSE /\ Finish(p, [NoResult EXCEPT !.outcome = "returned"])
               /\ call' = Fail(p, "slot")
               /\ UNCHANGED <<faulty, admin, available_slots, appointments>>

---------------------------------------------------------------------------
\* updateAppointmentStatus of part_000: one status write.

updateAppointmentStatus0_call(p, seq) ==
    /\ MayCall(p, seq)
    /\ \E id \in AppointmentIds, status \in Statuses :
          Issue(p, "u0_update",
                [NoCall EXCEPT !.fn = "updateAppointmentStatus0", !.id = id,
                               !.status = status, !.pre = Pre(seq)])

\* const { error } = await ...update({ status }).eq('id', id);
\* if (error) return false; return true
u0_update(p) ==
    /\ pc[p] = "u0_update"
    /\ \E ok \in Responses :
          IF ok
          THEN /\ appointments' = StatusUpdate(appointments, call[p].id, call[p].status)
               /\ Finish(p, [NoResult EXCEPT !.outcome = "returned", !.success = TRUE])
               /\ UNCHANGED <<faulty, admin, available_slots, call>>
          ELSE /\ Finish(p, [NoResult EXCEPT !.outcome = "returned",
                                             !.error = "updateError"])
               /\ call' = Fail(p, "update")
               /\ UNCHANGED <<faulty, admin, available_slots, appointments>>

---------------------------------------------------------------------------
\* updateAppointmentStatus of part_001: read, status write, slot release.

updateAppointmentStatus1_call(p, seq) ==
    /\ MayCall(p, seq)
    /\ \E id \in AppointmentIds, status \in Statuses :
          Issue(p, "u1_fetch",
                [NoCall EXCEPT !.fn = "updateAppointmentStatus1", !.id = id,
                               !.status = status, !.pre = Pre(seq)])

\* const { data: appointment, error: fetchError } =
\*   await ...select('slot_id, status').eq('id', id).single();
\* .single() reports an error when no row matches.  if (fetchError) throw
u1_fetch(p) ==
    /\ pc[p] = "u1_fetch"
    /\ \E ok \in Responses :
          IF ok /\ call[p].id \in DOMAIN appointments
          THEN /\ call' = [call EXCEPT ![p].appointment = appointments[call[p].id]]
               /\ pc' = [pc EXCEPT ![p] = "u1_update"]
               /\ UNCHANGED <<faulty, admin, available_slots, appointments, result>>
          ELSE /\ Finish(p, [NoResult EXCEPT !.outcome = "threw",
                                             !.error = "fetchError"])
               /\ call' = Fail(p, "fetch")
               /\ UNCHANGED <<faulty, admin, available_slots, appointments>>

ReleaseOnEveryCancel(status, priorStatus) ==
    status = "cancelled"

ReleaseWhenNotCancelledBefore(status, priorStatus) ==
    priorStatus # "cancelled"

\* if (status === 'cancelled' && appointment.status !== 'cancelled')
ShouldReleaseSlot(status, priorStatus) ==
    status = "cancelled" /\ priorStatus # "cancelled"

\* const { error } = await ...update({ status }).eq('id', id);
\* if (error) throw error; without a slot to release the call returns here.
u1_update(p) ==
    /\ pc[p] = "u1_update"
    /\ \E ok \in Responses :
          IF ok
          THEN /\ appointments' = StatusUpdate(appointments, call[p].id, call[p].status)
               /\ IF ShouldReleaseSlot(call[p].status, call[p].appointment.status)
                  THEN /\ pc' = [pc EXCEPT ![p] = "u1_slot"]
                       /\ UNCHANGED <<faulty, admin, result>>
                  ELSE Finish(p, [NoResult EXCEPT !.outcome = "returned",
                                                  !.success = TRUE])
               /\ UNCHANGED <<faulty, admin, available_slots, call>>
          ELSE /\ Finish(p, [NoResult EXCEPT !.outcome = "threw",
                                             !.error = "updateError"])
               /\ call' = Fail(p, "update")
               /\ UNCHANGED <<faulty, admin, available_slots, appointments>>

\* const { error: slotError } = await ...update({ is_available: true })
\*   .eq('id', appointment.slot_id);  if (slotError) throw slotError
u1_slot(p) ==
    /\ pc[p] = "u1_slot"
    /\ \E ok \in Responses :
          IF ok
          THEN /\ available_slots' =
                     SlotUpdate(available_slots, call[p].appointment.slot_id, TRUE)
               /\ Finish(p, [NoResult EXCEPT !.outcome = "returned", !.success = TRUE])
               /\ UNCHANGED <<faulty, admin, appointments, call>>
          ELSE /\ Finish(p, [NoResult EXCEPT !.outcome = "threw",
                                             !.error = "slotError"])
               /\ call' = Fail(p, "slot")
               /\ UNCHANGED <<faulty, admin, available_slots, appointments>>

---------------------------------------------------------------------------
\* Requests of a call in progress, served in any order across callers.
Step(p) ==
    \/ c0_slot(p) \/ c0_insert(p) \/ c0_revert(p)
    \/ c1_insert(p) \/ c1_slot(p)
    \/ u0_update(p)
    \/ u1_fetch(p) \/ u1_update(p) \/ u1_slot(p)
    \/ Return(p)

\* Calls issued at any time: their requests interleave.
Next ==
    \/ createAvailableSlot(FALSE)
    \/ \E p \in Clients :
          \/ createAppointment0_call(p, FALSE)
          \/ createAppointment1_call(p, FALSE)
          \/ updateAppointmentStatus0_call(p, FALSE)
          \/ updateAppointmentStatus1_call(p, FALSE)
          \/ Step(p)

Spec == Init /\ [][Next]_vars

\* Calls issued one after the other: no two calls overlap.
NextSeq ==
    \/ createAvailableSlot(TRUE)
    \/ \E p \in Clients :
          \/ createAppointment0_call(p, TRUE)
          \/ createAppointment1_call(p, TRUE)
          \/ updateAppointmentStatus0_call(p, TRUE)
          \/ updateAppointmentStatus1_call(p, TRUE)
          \/ Step(p)

SeqSpec == Init /\ [][NextSeq]_vars

\* The appointments with status other than 'cancelled' that reference slot s.
LiveRefs(appts, s) ==
    {a \in DOMAIN appts : appts[a].slot_id = s /\ appts[a].status # "cancelled"}

(***************************************************************************)
(* Admin Schedule page: slot listing and deletion                          *)
(***************************************************************************)

\* The booking client of the runs that follow the Schedule page.
Bookers == {1}

\* The rows of available_slots that have not been deleted.
SlotRows == DOMAIN available_slots \ {r.id : r \in removed_slots}

\* The appointments that reference slot s.
References(s) == {a \in DOMAIN appointments : appointments[a].slot_id = s}

\* .from('available_slots').delete().eq('id', id): the row with that id is
\* removed, whatever its is_available.  A removed row is kept in
\* removed_slots with the flag and the number of non-cancelled appointments
\* it had when it was removed.
SlotDelete(removed, id) ==
    IF id \in SlotRows
    THEN removed \cup {[id |-> id,
                        is_available |-> available_slots[id].is_available,
                        live |-> Cardinality(LiveRefs(appointments, id))]}
    ELSE removed

\* What the store can answer to the delete.  Whether a row that appointments
\* reference can be deleted depends on the foreign key of
\* appointments.slot_id, declared in a schema the repository does not
\* contain: either answer is possible.
DeleteResponses(id) == IF References(id) # {} THEN BOOLEAN ELSE Responses

\* useQuery(['professionalTimeSlots', ...]) -> fetchAllSlotsForProfessional:
\* the page receives the rows as they are when the query is served.  It runs
\* on load, on refetch, and after a successful delete.
fetchTimeSlots ==
    /\ schedule.pc \in {"idle", "refetch"}
    /\ \E ok \in Responses :
          schedule' =
              [schedule EXCEPT
                  !.timeSlots = IF ok
                                THEN [s \in SlotRows |-> available_slots[s].is_available]
                                ELSE @,
                  !.pc = "idle"]
    /\ UNCHANGED <<faulty, available_slots, booking, removed_slots, last,
                   professional_services, professionals, services, users,
                   tenancy>>

\* The delete button of a listed row, disabled={!slot.available}:
\* setSelectedTimeSlot(timeSlot); setIsDeleteDialogOpen(true)
openDeleteDialog(s) ==
    /\ schedule.pc = "idle"
    /\ s \in DOMAIN schedule.timeSlots
    /\ schedule.timeSlots[s]
    /\ schedule' = [schedule EXCEPT !.selectedTimeSlot = s,
                                    !.isDeleteDialogOpen = TRUE]
    /\ UNCHANGED <<faulty, available_slots, booking, removed_slots, last,
                   professional_services, professionals, services, users,
                   tenancy>>

\* if (!selectedTimeSlot) return; deleteSlotMutation.mutate(selectedTimeSlot.id)
handleDeleteTimeSlot ==
    /\ schedule.pc = "idle"
    /\ schedule.isDeleteDialogOpen
    /\ schedule.selectedTimeSlot # 0
    /\ schedule' = [schedule EXCEPT !.pc = "deleting"]
    /\ UNCHANGED <<faulty, available_slots, booking, removed_slots, last,
                   professional_services, professionals, services, users,
                   tenancy>>

\* deleteAvailableSlot(id) served by the store.  onSuccess: the dialog is
\* closed and the listing refetched; onError: a toast.
deleteAvailableSlot ==
    /\ schedule.pc = "deleting"
    /\ \E ok \in DeleteResponses(schedule.selectedTimeSlot) :
          IF ok
          THEN /\ removed_slots' = SlotDelete(removed_slots, schedule.selectedTimeSlot)
               /\ schedule' = [schedule EXCEPT !.isDeleteDialogOpen = FALSE,
                                               !.pc = "refetch"]
          ELSE /\ schedule' = [schedule EXCEPT !.pc = "idle"]
               /\ UNCHANGED removed_slots
    /\ UNCHANGED <<faulty, available_slots, booking, last,
                   professional_services, professionals, services, users,
                   tenancy>>

\* The requests of a createAppointment call in progress.
BookingStep(p) ==
    \/ c0_slot(p) \/ c0_insert(p) \/ c0_revert(p)
    \/ c1_insert(p) \/ c1_slot(p)
    \/ Return(p)

\* The admin works on the Schedule page while a client books.
NextSchedule ==
    \/ createAvailableSlot(FALSE)
    \/ \E p \in Bookers :
          \/ createAppointment0_call(p, FALSE)
          \/ createAppointment1_call(p, FALSE)
          \/ BookingStep(p)
    \/ fetchTimeSlots
    \/ \E s \in SlotIds : openDeleteDialog(s)
    \/ handleDeleteTimeSlot
    \/ deleteAvailableSlot

ScheduleSpec == Init /\ [][NextSchedule]_vars

(***************************************************************************)
(* Dates                                                                   *)
(*                                                                         *)
(* A Date is a number of minutes since 00:00 of day 0 (in the code, of     *)
(* milliseconds since the epoch); day 0 is a Sunday.                       *)
(***************************************************************************)

DayLength == HoursPerDay * MinutesPerHour

Dates == 0..(MaxDays * DayLength - 1)

\* The calendar day of a Date.
DayOf(date) == date \div DayLength

\* Date.prototype.getDay(): 0 = Sunday .. 6 = Saturday
getDay(date) == DayOf(date) % 7

\* date.setHours(hours, minutes, 0, 0): same day, the given time of day
setHours(date, hours, minutes) ==
    DayOf(date) * DayLength + hours * MinutesPerHour + minutes

\* date.setDate(date.getDate() + 1): the same time of day, one day later
NextDay(date) == date + DayLength

(***************************************************************************)
(* createAvailableSlotsBulk                                                *)
(***************************************************************************)

\* The arguments of the calls.  startDate lies in day 0, endDate anywhere
\* in the calendar (before startDate as well).
BulkStartDates == 0..(DayLength - 1)
BulkEndDates == Dates
DaySelections == {{}, {0}, {1, 3}, 0..6}
Ranges ==
    {[startHour |-> 0, startMinute |-> 0, endHour |-> 1, endMinute |-> 0],
     [startHour |-> 1, startMinute |-> 1, endHour |-> 1, endMinute |-> 1]}
TimeRangeLists == UNION {[1..n -> Ranges] : n \in 0..MaxRanges}

\* slots.push({ professional_id, start_time, end_time, is_available: true })
\* for (const range of timeRanges), on the day of currentDate
DaySlots(professionalId, currentDate, timeRanges) ==
    [i \in 1..Len(timeRanges) |->
        [professional_id |-> professionalId,
         start_time |-> setHours(currentDate, timeRanges[i].startHour,
                                 timeRanges[i].startMinute),
         end_time |-> setHours(currentDate, timeRanges[i].endHour,
                               timeRanges[i].endMinute),
         is_available |-> TRUE]]

\* while (currentDate <= endDate) { if (selectedDays.includes(dayOfWeek)) ...;
\*   currentDate.setDate(currentDate.getDate() + 1) }
\* The comparison is of the two Dates, time of day included.
RECURSIVE GenerateSlots(_, _, _, _, _)
GenerateSlots(professionalId, currentDate, endDate, selectedDays, timeRanges) ==
    IF currentDate <= endDate
    THEN (IF getDay(currentDate) \in selectedDays
          THEN DaySlots(professionalId, currentDate, timeRanges)
          ELSE <<>>)
         \o GenerateSlots(professionalId, NextDay(currentDate), endDate,
                          selectedDays, timeRanges)
    ELSE <<>>

\* A generation that sends the insert even when it has no rows.
NothingToInsertNever(slots) == FALSE

\* if (slots.length === 0) return { count: 0 }
NothingToInsert(slots) == Len(slots) = 0

\* The call: the rows are generated; without rows it returns at once,
\* otherwise it sends one insert.  The runs follow the calls made until one
\* of them has filled the table.
createAvailableSlotsBulk_call ==
    /\ last = NoLast
    /\ \E professionalId \in ProfessionalIds, startDate \in BulkStartDates,
          endDate \in BulkEndDates, selectedDays \in DaySelections,
          timeRanges \in TimeRangeLists :
          LET slots == GenerateSlots(professionalId, startDate, endDate,
                                     selectedDays, timeRanges)
              c == [fn |-> "createAvailableSlotsBulk",
                    professionalId |-> professionalId, startDate |-> startDate,
                    endDate |-> endDate, selectedDays |-> selectedDays,
                    timeRanges |-> timeRanges, slots |-> slots,
                    rows |-> Len(available_slots), requests |-> 0,
                    data |-> <<>>, outcome |-> "none", count |-> 0,
                    pc |-> "insert"]
          IN  /\ Len(available_slots) = 0
              /\ Len(slots) <= MaxBulkRows
              /\ last' = IF NothingToInsert(slots)
                         THEN [c EXCEPT !.outcome = "returned", !.pc = "done"]
                         ELSE c
    /\ UNCHANGED <<faulty, available_slots, booking, removed_slots, schedule,
                   professional_services, professionals, services, users,
                   tenancy>>

\* const { data, error } = await ...insert(slots).select();
\* if (error) throw error; return { count: data?.length || 0 }
b_insert ==
    /\ last.fn = "createAvailableSlotsBulk"
    /\ last.pc = "insert"
    /\ \E ok \in Responses :
          IF ok
          THEN /\ available_slots' = available_slots \o last.slots
               /\ last' = [last EXCEPT !.requests = @ + 1, !.data = last.slots,
                                       !.outcome = "returned",
                                       !.count = Len(last.slots), !.pc = "done"]
          ELSE /\ last' = [last EXCEPT !.requests = @ + 1, !.outcome = "threw",
                                       !.pc = "done"]
               /\ UNCHANGED available_slots
    /\ UNCHANGED <<faulty, booking, removed_slots, schedule,
                   professional_services, professionals, services, users,
                   tenancy>>

\* The caller consumes what the administrative call returned or threw.
Forget ==
    /\ last.fn # "none"
    /\ last.pc = "done"
    /\ last' = NoLast
    /\ UNCHANGED <<faulty, available_slots, booking, removed_slots, schedule,
                   professional_services, professionals, services, users,
                   tenancy>>

NextBulk == createAvailableSlotsBulk_call \/ b_insert \/ Forget

BulkSpec == Init /\ [][NextBulk]_vars

(***************************************************************************)
(* fetchAvailableSlots                                                     *)
(***************************************************************************)

\* date.setHours(0, 0, 0, 0)
StartOfDay(date) == setHours(date, 0, 0)

\* date.setHours(23, 59, 59, 999): the last instant of the day a Date holds
EndOfDay(date) == setHours(date, HoursPerDay - 1, MinutesPerHour - 1)

\* The start times of the rows: around the two ends of day 1.
SlotStartTimes ==
    {DayLength - 1, DayLength, DayLength + 1, 2 * DayLength - 1, 2 * DayLength}

\* The date argument: any time of day 1.
FetchDates == DayLength..(2 * DayLength - 1)

\* createAvailableSlot(professionalId, startTime, endTime): one insert of
\* { professional_id, start_time, end_time, is_available: true }.  The runs
\* follow one administrative call at a time: the table changes once the
\* result of the latest call has been consumed.
createAvailableSlot1 ==
    /\ last = NoLast
    /\ Len(available_slots) < MaxFetchRows
    /\ \E professionalId \in ProfessionalIds, startTime \in SlotStartTimes :
          available_slots' =
              Append(available_slots,
                     [professional_id |-> professionalId, start_time |-> startTime,
                      end_time |-> startTime + MinutesPerHour, is_available |-> TRUE])
    /\ UNCHANGED <<faulty, booking, admin>>

\* The slot write of a createAppointment call, update({ is_available: false })
\* .eq('id', slotId); the appointment row it goes with plays no part in the
\* listing.
bookSlot ==
    /\ last = NoLast
    /\ \E slotId \in DOMAIN available_slots :
          /\ available_slots[slotId].is_available
          /\ available_slots' = SlotUpdate(available_slots, slotId, FALSE)
    /\ UNCHANGED <<faulty, booking, admin>>

\* A filter that takes the next day's midnight in: .lte('start_time', nextDay)
FetchFilterThroughMidnight(slots, professionalId, date) ==
    {s \in DOMAIN slots :
        /\ slots[s].professional_id = professionalId
        /\ slots[s].is_available
        /\ slots[s].start_time >= StartOfDay(date)
        /\ slots[s].start_time <= NextDay(StartOfDay(date))}

\* part_000: .eq('professional_id', professionalId).eq('is_available', true)
\*   .gte('start_time', selectedDate).lt('start_time', nextDay)
FetchFilter0(slots, professionalId, date) ==
    {s \in DOMAIN slots :
        /\ slots[s].professional_id = professionalId
        /\ slots[s].is_available
        /\ slots[s].start_time >= StartOfDay(date)
        /\ slots[s].start_time < NextDay(StartOfDay(date))}

\* part_001: .eq('professional_id', professionalId)
\*   .gte('start_time', startOfDay).lte('start_time', endOfDay)
\*   .eq('is_available', true)
FetchFilter1(slots, professionalId, date) ==
    {s \in DOMAIN slots :
        /\ slots[s].professional_id = professionalId
        /\ slots[s].start_time >= StartOfDay(date)
        /\ slots[s].start_time <= EndOfDay(date)
        /\ slots[s].is_available}

\* .order('start_time'): the rows by ascending start_time; rows with the
\* same start_time come in either order.
Ordered(slots, ids) ==
    {data \in [1..Cardinality(ids) -> ids] :
        \A i, j \in 1..Cardinality(ids) :
            i < j => /\ data[i] # data[j]
                     /\ slots[data[i]].start_time <= slots[data[j]].start_time}

\* The finished call: if (error) throw error; return (data || []).map(...)
\* rows: the table as the select found it.
Fetched(fn, professionalId, date, ok, data) ==
    [fn |-> fn, professionalId |-> professionalId, date |-> date,
     rows |-> available_slots, data |-> data,
     outcome |-> IF ok THEN "returned" ELSE "threw", pc |-> "done"]

\* fetchAvailableSlots of part_000: one select.
fetchAvailableSlots0 ==
    /\ last = NoLast
    /\ \E professionalId \in ProfessionalIds, date \in FetchDates, ok \in Responses :
          IF ok
          THEN \E data \in Ordered(available_slots,
                                   FetchFilter0(available_slots, professionalId, date)) :
                  last' = Fetched("fetchAvailableSlots0", professionalId, date, TRUE, data)
          ELSE last' = Fetched("fetchAvailableSlots0", professionalId, date, FALSE, <<>>)
    /\ UNCHANGED <<faulty, available_slots, booking, removed_slots, schedule,
                   professional_services, professionals, services, users,
                   tenancy>>

\* fetchAvailableSlots of part_001: one select.
fetchAvailableSlots1 ==
    /\ last = NoLast
    /\ \E professionalId \in ProfessionalIds, date \in FetchDates, ok \in Responses :
          IF ok
          THEN \E data \in Ordered(available_slots,
                                   FetchFilter1(available_slots, professionalId, date)) :
                  last' = Fetched("fetchAvailableSlots1", professionalId, date, TRUE, data)
          ELSE last' = Fetched("fetchAvailableSlots1", professionalId, date, FALSE, <<>>)
    /\ UNCHANGED <<faulty, available_slots, booking, removed_slots, schedule,
                   professional_services, professionals, services, users,
                   tenancy>>

NextFetch ==
    \/ createAvailableSlot1
    \/ bookSlot
    \/ fetchAvailableSlots0
    \/ fetchAvailableSlots1
    \/ Forget

FetchSpec == Init /\ [][NextFetch]_vars

(***************************************************************************)
(* Professional-service associations and users                             *)
(*                                                                         *)
(* Each of these functions is one request.  The store keeps one row per    *)
(* (professional_id, service_id): a second insert of a pair is answered    *)
(* with the unique-violation code 23505.                                   *)
(***************************************************************************)

\* What the store answers to the insert of a pair: "none" is no error.
InsertCode(rows, professionalId, serviceId, ok) ==
    IF ~ok THEN "other"
    ELSE IF <<professionalId, serviceId>> \in rows THEN "23505" ELSE "none"

\* .from('professional_services').insert({ professional_id, service_id })
AssociationInsert(rows, professionalId, serviceId, code) ==
    IF code = "none" THEN rows \cup {<<professionalId, serviceId>>} ELSE rows

\* A delete filtered on professional_id alone.
AssociationDeleteByProfessional(rows, professionalId, serviceId) ==
    {r \in rows : r[1] # professionalId}

\* .delete().eq('professional_id', professionalId).eq('service_id', serviceId)
AssociationDelete(rows, professionalId, serviceId) ==
    rows \ {<<professionalId, serviceId>>}

\* The finished call on the join table.  pre: the table as the request
\* found it; code: the store's answer; success: the call returned true
\* (part_000) or returned without throwing (part_001).
Associated(fn, professionalId, serviceId, code, outcome, success) ==
    [fn |-> fn, professionalId |-> professionalId, serviceId |-> serviceId,
     pre |-> professional_services, code |-> code, outcome |-> outcome,
     success |-> success, pc |-> "done"]

\* part_000: if (error) { if (error.code === '23505') return true;
\*   return false }  return true
associateProfessionalService0 ==
    /\ last = NoLast
    /\ \E professionalId \in ProfessionalIds, serviceId \in ServiceIds,
          ok \in Responses :
          LET code == InsertCode(professional_services, professionalId, serviceId, ok)
          IN  /\ professional_services' =
                     AssociationInsert(professional_services, professionalId,
                                       serviceId, code)
              /\ last' = Associated("associateProfessionalService0", professionalId,
                                    serviceId, code, "returned",
                                    code \in {"none", "23505"})
    /\ UNCHANGED <<faulty, available_slots, booking, removed_slots, schedule,
                   professionals, services, users, tenancy>>

\* part_001: if (error) throw error
associateProfessionalService1 ==
    /\ last = NoLast
    /\ \E professionalId \in ProfessionalIds, serviceId \in ServiceIds,
          ok \in Responses :
          LET code == InsertCode(professional_services, professionalId, serviceId, ok)
          IN  /\ professional_services' =
                     AssociationInsert(professional_services, professionalId,
                                       serviceId, code)
              /\ last' = Associated("associateProfessionalService1", professionalId,
                                    serviceId, code,
                                    IF code = "none" THEN "returned" ELSE "threw",
                                    code = "none")
    /\ UNCHANGED <<faulty, available_slots, booking, removed_slots, schedule,
                   professionals, services, users, tenancy>>

\* part_000: if (error) return false; return true
dissociateProfessionalService0 ==
    /\ last = NoLast
    /\ \E professionalId \in ProfessionalIds, serviceId \in ServiceIds,
          ok \in Responses :
          /\ professional_services' =
                 IF ok
                 THEN AssociationDelete(professional_services, professionalId, serviceId)
                 ELSE professional_services
          /\ last' = Associated("dissociateProfessionalService0", professionalId,
                                serviceId, IF ok THEN "none" ELSE "other",
                                "returned", ok)
    /\ UNCHANGED <<faulty, available_slots, booking, removed_slots, schedule,
                   professionals, services, users, tenancy>>

\* part_001: if (error) throw error
dissociateProfessionalService1 ==
    /\ last = NoLast
    /\ \E professionalId \in ProfessionalIds, serviceId \in ServiceIds,
          ok \in Responses :
          /\ professional_services' =
                 IF ok
                 THEN AssociationDelete(professional_services, professionalId, serviceId)
                 ELSE professional_services
          /\ last' = Associated("dissociateProfessionalService1", professionalId,
                                serviceId, IF ok THEN "none" ELSE "other",
                                IF ok THEN "returned" ELSE "threw", ok)
    /\ UNCHANGED <<faulty, available_slots, booking, removed_slots, schedule,
                   professionals, services, users, tenancy>>

\* createUsers: one insert; the new row carries an auth_id no row has.
createUsers ==
    /\ last = NoLast
    /\ \E authId \in AuthIds \ users : users' = users \cup {authId}
    /\ UNCHANGED <<faulty, available_slots, booking, removed_slots, schedule,
                   last, professional_services, professionals, services,
                   tenancy>>

\* .eq('auth_id', authId).single(): the row, or the error PGRST116 when no
\* row matches; any request can fail with another error.
LookupCode(rows, authId, ok) ==
    IF ~ok THEN "other"
    ELSE IF authId \in rows THEN "none" ELSE "PGRST116"

\* A lookup that takes every error for a missing row.
IsNotFoundAnyError(code) == code # "none"

\* if (error.code === 'PGRST116') return null
IsNotFound(code) == code = "PGRST116"

\* getUserByAuth: if (error) { if (PGRST116) return null; throw error }
\* return user.  data: the auth_id of the returned user, 0 for null.
getUserByAuth ==
    /\ last = NoLast
    /\ \E authId \in AuthIds, ok \in Responses :
          LET code == LookupCode(users, authId, ok)
          IN  last' = [fn |-> "getUserByAuth", authId |-> authId, pre |-> users,
                       code |-> code,
                       outcome |-> IF code = "none" \/ IsNotFound(code)
                                   THEN "returned" ELSE "threw",
                       data |-> IF code = "none" THEN authId ELSE 0,
                       pc |-> "done"]
    /\ UNCHANGED <<faulty, available_slots, booking, removed_slots, schedule,
                   professional_services, professionals, services, users,
                   tenancy>>

NextAdmin ==
    \/ associateProfessionalService0
    \/ associateProfessionalService1
    \/ dissociateProfessionalService0
    \/ dissociateProfessionalService1
    \/ createUsers
    \/ getUserByAuth
    \/ Forget

AdminSpec == Init /\ [][NextAdmin]_vars

(***************************************************************************)
(* Professionals and services: delete and listing                          *)
(*                                                                         *)
(* A row is [active, present]; present = FALSE stands for a row that has   *)
(* been physically deleted (its id is not given to another row).           *)
(***************************************************************************)

\* .update({ active: false }).eq('id', id): the row stays
Deactivate(rows, id) ==
    [i \in DOMAIN rows |->
        IF i = id /\ rows[i].present THEN [rows[i] EXCEPT !.active = FALSE]
        ELSE rows[i]]

\* .delete().eq('id', id): the row is gone
RowDelete(rows, id) ==
    [i \in DOMAIN rows |->
        IF i = id THEN [rows[i] EXCEPT !.present = FALSE] ELSE rows[i]]

\* select('*').eq('active', true)
ListFilter0(rows) == {i \in DOMAIN rows : rows[i].present /\ rows[i].active}

\* select('*'): every row of the table
ListFilter1(rows) == {i \in DOMAIN rows : rows[i].present}

\* The finished delete.  table: the table it works on; pre: that table as
\* the request found it.
Deleted(fn, table, id, pre, outcome, success) ==
    [fn |-> fn, table |-> table, id |-> id, pre |-> pre, outcome |-> outcome,
     success |-> success, data |-> {}, pc |-> "done"]

\* The finished listing.  data: the ids of the rows returned.
Listed(fn, table, pre, ok, data) ==
    [fn |-> fn, table |-> table, id |-> 0, pre |-> pre,
     outcome |-> IF ok THEN "returned" ELSE "threw", success |-> ok,
     data |-> IF ok THEN data ELSE {}, pc |-> "done"]

\* createProfessional: one insert; the row is active.
createProfessional ==
    /\ last = NoLast
    /\ Len(professionals) < MaxProfessionals
    /\ professionals' = Append(professionals, [active |-> TRUE, present |-> TRUE])
    /\ UNCHANGED <<faulty, available_slots, booking, removed_slots, schedule, last,
                   professional_services, services, users, tenancy>>

\* part_000: update({ active: false }).eq('id', id);
\* if (error) return false; return true
deleteProfessional0 ==
    /\ last = NoLast
    /\ \E id \in ProfessionalIds, ok \in Responses :
          /\ professionals' = IF ok THEN Deactivate(professionals, id) ELSE professionals
          /\ last' = Deleted("deleteProfessional0", "professionals", id, professionals,
                             "returned", ok)
    /\ UNCHANGED <<faulty, available_slots, booking, removed_slots, schedule,
                   professional_services, services, users, tenancy>>

\* part_001: delete().eq('id', id); if (error) throw error
deleteProfessional1 ==
    /\ last = NoLast
    /\ \E id \in ProfessionalIds, ok \in Responses :
          /\ professionals' = IF ok THEN RowDelete(professionals, id) ELSE professionals
          /\ last' = Deleted("deleteProfessional1", "professionals", id, professionals,
                             IF ok THEN "returned" ELSE "threw", ok)
    /\ UNCHANGED <<faulty, available_slots, booking, removed_slots, schedule,
                   professional_services, services, users, tenancy>>

\* part_000: select('*').eq('active', true); if (error) throw error
fetchProfessionals0 ==
    /\ last = NoLast
    /\ \E ok \in Responses :
          last' = Listed("fetchProfessionals0", "professionals", professionals, ok,
                         ListFilter0(professionals))
    /\ UNCHANGED <<faulty, available_slots, booking, removed_slots, schedule,
                   professional_services, professionals, services, users,
                   tenancy>>

\* part_001: select('*').order('name'); if (error) throw error
fetchProfessionals1 ==
    /\ last = NoLast
    /\ \E ok \in Responses :
          last' = Listed("fetchProfessionals1", "professionals", professionals, ok,
                         ListFilter1(professionals))
    /\ UNCHANGED <<faulty, available_slots, booking, removed_slots, schedule,
                   professional_services, professionals, services, users,
                   tenancy>>

\* createService: one insert; the row is active.
createService ==
    /\ last = NoLast
    /\ Len(services) < MaxServices
    /\ services' = Append(services, [active |-> TRUE, present |-> TRUE])
    /\ UNCHANGED <<faulty, available_slots, booking, removed_slots, schedule, last,
                   professional_services, professionals, users, tenancy>>

\* part_000: update({ active: false }).eq('id', id);
\* if (error) return false; return true
deleteService0 ==
    /\ last = NoLast
    /\ \E id \in ServiceIds, ok \in Responses :
          /\ services' = IF ok THEN Deactivate(services, id) ELSE services
          /\ last' = Deleted("deleteService0", "services", id, services,
                             "returned", ok)
    /\ UNCHANGED <<faulty, available_slots, booking, removed_slots, schedule,
                   professional_services, professionals, users, tenancy>>

\* part_001: delete().eq('id', id); if (error) throw error
deleteService1 ==
    /\ last = NoLast
    /\ \E id \in ServiceIds, ok \in Responses :
          /\ services' = IF ok THEN RowDelete(services, id) ELSE services
          /\ last' = Deleted("deleteService1", "services", id, services,
                             IF ok THEN "returned" ELSE "threw", ok)
    /\ UNCHANGED <<faulty, available_slots, booking, removed_slots, schedule,
                   professional_services, professionals, users, tenancy>>

\* part_000: select('*').eq('active', true); if (error) throw error
fetchServices0 ==
    /\ last = NoLast
    /\ \E ok \in Responses :
          last' = Listed("fetchServices0", "services", services, ok,
                         ListFilter0(services))
    /\ UNCHANGED <<faulty, available_slots, booking, removed_slots, schedule,
                   professional_services, professionals, services, users,
                   tenancy>>

\* part_001: select('*').order('name'); if (error) throw error
fetchServices1 ==
    /\ last = NoLast
    /\ \E ok \in Responses :
          last' = Listed("fetchServices1", "services", services, ok,
                         ListFilter1(services))
    /\ UNCHANGED <<faulty, available_slots, booking, removed_slots, schedule,
                   professional_services, professionals, services, users,
                   tenancy>>

NextCatalog ==
    \/ createProfessional
    \/ deleteProfessional0
    \/ deleteProfessional1
    \/ fetchProfessionals0
    \/ fetchProfessionals1
    \/ createService
    \/ deleteService0
    \/ deleteService1
    \/ fetchServices0
    \/ fetchServices1
    \/ Forget

CatalogSpec == Init /\ [][NextCatalog]_vars

(***************************************************************************)
(* createUserForCompany                                                    *)
(***************************************************************************)

Emails == 1..MaxEmails
Roles == {"admin", "professional"}

\* supabase.auth.admin.createUser({ email, password, email_confirm: true }):
\* the identity service refuses an email it already has, and any request
\* can fail; otherwise it creates the user under a fresh id.
\* The answer: the id of the created user, 0 with authError.
CreateUserAnswer(identities, email, ok) ==
    IF ~ok \/ \E u \in identities : u.email = email
    THEN 0
    ELSE Cardinality(identities) + 1

\* The call: its arguments; nothing is sent yet.
createUserForCompany_call ==
    /\ last = NoLast
    /\ Cardinality(auth_users) < MaxUsers
    /\ \E email \in Emails, role \in Roles :
          last' = [fn |-> "createUserForCompany", email |-> email, role |-> role,
                   authId |-> 0, data |-> [auth_id |-> 0], failed |-> "none",
                   outcome |-> "none", pc |-> "createUser"]
    /\ UNCHANGED <<faulty, available_slots, booking, removed_slots, schedule,
                   professional_services, professionals, services, users,
                   tenancy>>

\* Step 1: const { data: authData, error: authError } = await
\* supabase.auth.admin.createUser(...); if (authError) throw authError
cu_createUser ==
    /\ last.fn = "createUserForCompany"
    /\ last.pc = "createUser"
    /\ \E ok \in Responses :
          LET id == CreateUserAnswer(auth_users, last.email, ok)
          IN  IF id # 0
              THEN /\ auth_users' = auth_users \cup {[id |-> id, email |-> last.email]}
                   /\ last' = [last EXCEPT !.authId = id, !.pc = "insert"]
              ELSE /\ last' = [last EXCEPT !.failed = "createUser",
                                           !.outcome = "threw", !.pc = "done"]
                   /\ UNCHANGED auth_users
    /\ UNCHANGED <<faulty, available_slots, booking, removed_slots, schedule,
                   professional_services, professionals, services, users,
                   success_page, companies, company_page, clock, auth>>

\* Step 2: const { data: userData, error: userError } = await
\* ...from('users').insert({ auth_id: authData.user.id, email, name, role,
\* tipo_usuario: 'admin' }).select().single();
\* if (userError) throw userError; return userData
cu_insert ==
    /\ last.fn = "createUserForCompany"
    /\ last.pc = "insert"
    /\ \E ok \in Responses :
          IF ok
          THEN /\ users' = users \cup {last.authId}
               /\ last' = [last EXCEPT
                              !.data = [auth_id |-> last.authId,
                                        email |-> last.email, role |-> last.role,
                                        tipo_usuario |-> "admin"],
                              !.outcome = "returned", !.pc = "done"]
          ELSE /\ last' = [last EXCEPT !.failed = "insert",
                                       !.outcome = "threw", !.pc = "done"]
               /\ UNCHANGED users
    /\ UNCHANGED <<faulty, available_slots, booking, removed_slots, schedule,
                   professional_services, professionals, services, tenancy>>

NextIdentity ==
    \/ createUserForCompany_call
    \/ cu_createUser
    \/ cu_insert
    \/ getUserByAuth
    \/ Forget

IdentitySpec == Init /\ [][NextIdentity]_vars

(***************************************************************************)
(* Appointment-success page                                                *)
(***************************************************************************)

\* The `id` search parameter: an appointment id, or 0 when there is none.
SuccessPageIds == {0} \cup AppointmentIds

\* How `await fetchAppointmentById(id)` can settle, as the page tells the
\* cases apart: with a record (only of a row that is there), with no
\* record, or with an error.
FetchByIdAnswers(id) ==
    (IF id \in DOMAIN appointments THEN {"record"} ELSE {"null", "threw"})
    \cup (IF faulty THEN {"null", "threw"} ELSE {})

\* if (loading) skeleton; if (error) the error page; otherwise the details
Rendered(page) ==
    IF page.loading THEN "skeleton"
    ELSE IF page.error # "none" THEN "error"
    ELSE "details"

\* The page is opened: useEffect runs once for the id.
\* if (id) { loadAppointment(): setLoading(true); await ... }
\* else { setLoading(false); setError('ID do agendamento não fornecido.') }
openSuccessPage ==
    /\ success_page.pc = "closed"
    /\ \E id \in SuccessPageIds :
          success_page' =
              IF id # 0
              THEN [success_page EXCEPT !.pc = "fetching", !.id = id,
                                        !.loading = TRUE]
              ELSE [success_page EXCEPT !.pc = "settled", !.loading = FALSE,
                                        !.error = "noId"]
    /\ UNCHANGED <<faulty, available_slots, booking, scheduling, auth_users,
                   companies, company_page, clock, auth>>

\* loadAppointment resumes when fetchAppointmentById settles:
\* if (!data) { setLoading(false); setError(...) }
\* else { setAppointment(typedData) }
\* catch { setLoading(false); setError(...) }
loadAppointment ==
    /\ success_page.pc = "fetching"
    /\ \E answer \in FetchByIdAnswers(success_page.id) :
          success_page' =
              IF answer = "record"
              THEN [success_page EXCEPT !.pc = "settled",
                                        !.appointment = success_page.id]
              ELSE [success_page EXCEPT !.pc = "settled", !.loading = FALSE,
                                        !.error = IF answer = "null"
                                                  THEN "notFound" ELSE "loadError"]
    /\ UNCHANGED <<faulty, available_slots, booking, scheduling, auth_users,
                   companies, company_page, clock, auth>>

\* A client books and then looks at the success page; the request of the
\* page is answered in the end.
NextSuccess ==
    \/ createAvailableSlot(FALSE)
    \/ \E p \in Bookers :
          \/ createAppointment1_call(p, FALSE)
          \/ c1_insert(p)
          \/ c1_slot(p)
          \/ Return(p)
    \/ openSuccessPage
    \/ loadAppointment

SuccessSpec == Init /\ [][NextSuccess]_vars /\ WF_vars(loadAppointment)

(***************************************************************************)
(* useAuth                                                                 *)
(***************************************************************************)

\* tipo_usuario of a users row; "null" when the column is empty.
TipoUsuarios == {"null", "admin", "superadmin"}

\* checkAuth() is called: it runs up to its first await.
StartCheck(a, i) == [a EXCEPT !.checks[i] = [NoCheck EXCEPT !.pc = "getSession"]]

FreeChecks == {i \in 1..MaxChecks : auth.checks[i].pc = "none"}

\* navigate(to) unless the window is under that prefix already
Navigate(pathname, prefix) == IF pathname = prefix THEN pathname ELSE prefix

\* useEffect: checkAuth(); supabase.auth.onAuthStateChange(listener)
useAuth ==
    /\ ~auth.mounted
    /\ auth' = StartCheck([auth EXCEPT !.mounted = TRUE], 1)
    /\ UNCHANGED <<faulty, available_slots, booking, scheduling, auth_users,
                   success_page, companies, company_page, clock>>

\* A user signs in.  The listener, if there is one:
\* if (event === 'SIGNED_IN' && session) checkAuth()
SIGNED_IN ==
    /\ auth.session = 0
    /\ auth.mounted => FreeChecks # {}
    /\ \E user \in AuthIds :
          LET a == [auth EXCEPT !.session = user, !.signedOut = FALSE]
          IN  auth' = IF auth.mounted
                      THEN StartCheck(a, CHOOSE i \in FreeChecks : TRUE)
                      ELSE a
    /\ UNCHANGED <<faulty, available_slots, booking, scheduling, auth_users,
                   success_page, companies, company_page, clock>>

\* The user signs out.  The listener, if there is one:
\* setIsAuthenticated(false); setUserType(null);
\* localStorage.removeItem('userType'); navigate('/login')
SIGNED_OUT ==
    /\ auth.session # 0
    /\ auth' = IF auth.mounted
               THEN [auth EXCEPT !.session = 0, !.isAuthenticated = FALSE,
                                 !.userType = "null", !.stored = "null",
                                 !.pathname = "login", !.signedOut = TRUE]
               ELSE [auth EXCEPT !.session = 0]
    /\ UNCHANGED <<faulty, available_slots, booking, scheduling, auth_users,
                   success_page, companies, company_page, clock>>

\* const { data: { session } } = await supabase.auth.getSession() resolves:
\* if (!session) { setLoading(false); setIsAuthenticated(false); return }
\* const storedUserType = localStorage.getItem('userType');
\* and the users query is sent.
checkAuth_getSession(i) ==
    /\ auth.checks[i].pc = "getSession"
    /\ auth' = IF auth.session = 0
               THEN [auth EXCEPT !.loading = FALSE, !.isAuthenticated = FALSE,
                                 !.checks[i] = NoCheck]
               ELSE [auth EXCEPT !.checks[i] =
                         [pc |-> "users", session |-> auth.session,
                          storedUserType |-> auth.stored]]
    /\ UNCHANGED <<faulty, available_slots, booking, scheduling, auth_users,
                   success_page, companies, company_page, clock>>

\* if (userData?.email === ... || userData?.tipo_usuario === 'superadmin'
\*     || storedUserType === 'superadmin')
IsSuperadmin(email_is_special, tipo, storedUserType) ==
    email_is_special \/ tipo = "superadmin" \/ storedUserType = "superadmin"

\* The users query of checkAuth resolves, .eq('auth_id', session.user.id)
\* .single().  The row's tipo_usuario and email are not columns the model
\* keeps: any value.
\* error: the stored type, if there was one, is taken; otherwise not
\* authenticated.  data: the type is set and stored, the window sent to the
\* dashboard of the type, and the user is authenticated.
checkAuth_users(i) ==
    /\ auth.checks[i].pc = "users"
    /\ \E ok \in Responses, tipo \in TipoUsuarios, email_is_special \in BOOLEAN :
          LET c == auth.checks[i]
              error == LookupCode(users, c.session, ok) # "none"
              done == [auth EXCEPT !.checks[i] = NoCheck, !.loading = FALSE]
              type == IF IsSuperadmin(email_is_special, tipo, c.storedUserType)
                      THEN "superadmin"
                      ELSE IF tipo = "null" THEN "admin" ELSE tipo
          IN  auth' =
                  IF error
                  THEN IF c.storedUserType # "null"
                       THEN [done EXCEPT !.userType = c.storedUserType,
                                         !.isAuthenticated = TRUE]
                       ELSE [done EXCEPT !.isAuthenticated = FALSE]
                  ELSE [done EXCEPT !.userType = type, !.stored = type,
                                    !.pathname = Navigate(auth.pathname, type),
                                    !.isAuthenticated = TRUE]
    /\ UNCHANGED <<faulty, available_slots, booking, scheduling, auth_users,
                   success_page, companies, company_page, clock>>

NextAuth ==
    \/ createUsers
    \/ useAuth
    \/ SIGNED_IN
    \/ SIGNED_OUT
    \/ \E i \in 1..MaxChecks :
          \/ checkAuth_getSession(i)
          \/ checkAuth_users(i)

AuthSpec == Init /\ [][NextAuth]_vars

(***************************************************************************)
(* Companies page                                                          *)
(***************************************************************************)

\* What can be in the slug field: '' (0), the slugs 1..MaxSlugs, and a text
\* the pattern refuses (MaxSlugs + 1).
SlugInputs == 0..(MaxSlugs + 1)

\* /^[a-z0-9-]+$/.test(slug)
SlugRegexTest(slug) == slug \in 1..MaxSlugs

\* What can be in the expiry field of the plan dialog: '' (0) or a day.
ExpiryInputs == 0..1

\* new Date(planExpiryDate) of a 'YYYY-MM-DD' text: the midnight that starts
\* the day; .toISOString() names the same instant.
DateOfDay(day) == day * TicksPerDay

\* plan_expiry_date: planExpiryDate ? new Date(planExpiryDate).toISOString() : null
PlanExpiryDate(planExpiryDate) ==
    IF planExpiryDate # 0 THEN DateOfDay(planExpiryDate) ELSE NoExpiry

\* is_active: new Date(planExpiryDate) > new Date() || !planExpiryDate
\* (the Date of '' is invalid and compares false)
PlanIsActive(planExpiryDate, now) ==
    (planExpiryDate # 0 /\ DateOfDay(planExpiryDate) > now) \/ planExpiryDate = 0

\* isCompanyActive: if (!company.plan_expiry_date) return true;
\* return new Date(company.plan_expiry_date) > new Date()
isCompanyActive(company, now) ==
    IF company.plan_expiry_date = NoExpiry THEN TRUE
    ELSE company.plan_expiry_date > now

\* The pages other than a's.
PageFrame(a, page) == company_page' = [company_page EXCEPT ![a] = page]

\* new Date() moves on.
Tick ==
    /\ clock < MaxClock
    /\ clock' = clock + 1
    /\ UNCHANGED <<faulty, available_slots, booking, scheduling, auth_users,
                   success_page, companies, company_page, auth>>

\* fetchCompanies: select('*') from companies; setCompanies(data) unless
\* the request failed.  It runs when the page is mounted and after a save.
fetchCompanies(a) ==
    /\ company_page[a].pc \in {"idle", "refetch"}
    /\ \E ok \in Responses :
          PageFrame(a, [company_page[a] EXCEPT
                           !.companies = IF ok
                                         THEN [id \in DOMAIN companies |->
                                                  companies[id].slug]
                                         ELSE @,
                           !.pc = "idle"])
    /\ UNCHANGED <<faulty, available_slots, booking, scheduling, auth_users,
                   success_page, companies, clock, auth>>

\* handleOpenDialog(company): for a listed company the fields are filled
\* from it, for a new company (id 0) they are emptied.
handleOpenDialog(a, id) ==
    /\ company_page[a].pc = "idle"
    /\ id = 0 \/ id \in DOMAIN company_page[a].companies
    /\ LET slug == IF id = 0 THEN 0 ELSE company_page[a].companies[id]
       IN  PageFrame(a, [company_page[a] EXCEPT
                            !.editingCompany = [id |-> id, slug |-> slug],
                            !.slug = slug, !.dialog = "company"])
    /\ UNCHANGED <<faulty, available_slots, booking, scheduling, auth_users,
                   success_page, companies, clock, auth>>

\* handleOpenPlanDialog(company), for a listed company
handleOpenPlanDialog(a, id) ==
    /\ company_page[a].pc = "idle"
    /\ id \in DOMAIN company_page[a].companies
    /\ PageFrame(a, [company_page[a] EXCEPT
                        !.editingCompany =
                            [id |-> id, slug |-> company_page[a].companies[id]],
                        !.dialog = "plan"])
    /\ UNCHANGED <<faulty, available_slots, booking, scheduling, auth_users,
                   success_page, companies, clock, auth>>

\* handleSavePlan with whatever the expiry field holds: one update of the
\* row of editingCompany.id; on success the dialog is closed and the listing
\* refetched.
handleSavePlan(a) ==
    /\ company_page[a].pc = "idle"
    /\ company_page[a].dialog = "plan"
    /\ company_page[a].editingCompany.id # 0
    /\ \E planExpiryDate \in ExpiryInputs, ok \in Responses :
          LET id == company_page[a].editingCompany.id
          IN  IF ok
              THEN /\ companies' =
                         [companies EXCEPT
                             ![id].plan_expiry_date = PlanExpiryDate(planExpiryDate),
                             ![id].is_active = PlanIsActive(planExpiryDate, clock)]
                   /\ PageFrame(a, [company_page[a] EXCEPT !.dialog = "none",
                                                           !.pc = "refetch"])
              ELSE UNCHANGED <<companies, company_page>>
    /\ UNCHANGED <<faulty, available_slots, booking, scheduling, auth_users,
                   success_page, clock, auth>>

\* handleSaveCompany up to its first request, with whatever the name and
\* slug fields hold: an empty field or a slug the pattern refuses ends it;
\* a new company, or a changed slug, is looked up first.
handleSaveCompany(a) ==
    /\ company_page[a].pc = "idle"
    /\ company_page[a].dialog = "company"
    /\ company_page[a].editingCompany.id = 0 =>
           Len(companies)
             + Cardinality({b \in Admins :
                               /\ company_page[b].pc \in {"lookup", "write"}
                               /\ company_page[b].editingCompany.id = 0})
             < MaxCompanies
    /\ \E name \in BOOLEAN, slug \in SlugInputs :
          IF ~name \/ slug = 0 \/ ~SlugRegexTest(slug)
          THEN PageFrame(a, [company_page[a] EXCEPT !.slug = slug])
          ELSE PageFrame(a, [company_page[a] EXCEPT
                                !.slug = slug,
                                !.pc = IF \/ company_page[a].editingCompany.id = 0
                                          \/ company_page[a].editingCompany.slug # slug
                                       THEN "lookup" ELSE "write"])
    /\ UNCHANGED <<faulty, available_slots, booking, scheduling, auth_users,
                   success_page, companies, clock, auth>>

\* .select('id').eq('slug', slug).single(): the id of the one row with the
\* slug; no data (0) when the request fails or when not exactly one row
\* matches.
SlugLookup(rows, slug, ok) ==
    LET matches == {id \in DOMAIN rows : rows[id].slug = slug}
    IN  IF ok /\ Cardinality(matches) = 1
        THEN CHOOSE id \in matches : TRUE
        ELSE 0

\* if (data) for a new company; if (data && data.id !== editingCompany.id)
\* for a listed one
SlugInUse(data, editingCompany) ==
    IF editingCompany.id = 0 THEN data # 0
    ELSE data # 0 /\ data # editingCompany.id

\* The lookup is answered; the error of the request is not looked at.
sc_lookup(a) ==
    /\ company_page[a].pc = "lookup"
    /\ \E ok \in Responses :
          LET data == SlugLookup(companies, company_page[a].slug, ok)
          IN  PageFrame(a, [company_page[a] EXCEPT
                               !.pc = IF SlugInUse(data, company_page[a].editingCompany)
                                      THEN "idle" ELSE "write"])
    /\ UNCHANGED <<faulty, available_slots, booking, scheduling, auth_users,
                   success_page, companies, clock, auth>>

\* companyData = { name, primary_color, secondary_color, slug, is_active: true }
CompanyInsert(rows, slug) ==
    Append(rows, [slug |-> slug, plan_expiry_date |-> NoExpiry, is_active |-> TRUE])

\* .update(companyData).eq('id', id)
CompanyUpdate(rows, id, slug) ==
    [rows EXCEPT ![id].slug = slug, ![id].is_active = TRUE]

\* What the store can answer to the write.  Whether it refuses a slug that
\* another row has depends on a unique index on companies.slug, declared in
\* a schema the repository does not contain: either answer is possible.
WriteResponses(id, slug) ==
    IF \E other \in DOMAIN companies : other # id /\ companies[other].slug = slug
    THEN BOOLEAN
    ELSE Responses

\* The insert or the update is answered: on success the dialog is closed
\* and the listing refetched, on an error a toast is shown.
sc_write(a) ==
    /\ company_page[a].pc = "write"
    /\ LET id == company_page[a].editingCompany.id
           slug == company_page[a].slug
       IN  \E ok \in WriteResponses(id, slug) :
              IF ok
              THEN /\ companies' = IF id = 0
                                   THEN CompanyInsert(companies, slug)
                                   ELSE CompanyUpdate(companies, id, slug)
                   /\ PageFrame(a, [company_page[a] EXCEPT !.dialog = "none",
                                                           !.pc = "refetch"])
              ELSE /\ PageFrame(a, [company_page[a] EXCEPT !.pc = "idle"])
                   /\ UNCHANGED companies
    /\ UNCHANGED <<faulty, available_slots, booking, scheduling, auth_users,
                   success_page, clock, auth>>

\* One administrator creates companies, edits them and sets their plans
\* while time passes.
NextPlan ==
    \/ Tick
    \/ \E a \in {1} :
          \/ fetchCompanies(a)
          \/ \E id \in 0..MaxCompanies : handleOpenDialog(a, id)
          \/ \E id \in 1..MaxCompanies : handleOpenPlanDialog(a, id)
          \/ handleSavePlan(a)
          \/ handleSaveCompany(a)
          \/ sc_lookup(a)
          \/ sc_write(a)

PlanSpec == Init /\ [][NextPlan]_vars

\* The administrators create and edit companies at the same time.
NextSlug ==
    \E a \in Admins :
       \/ fetchCompanies(a)
       \/ \E id \in 0..MaxCompanies : handleOpenDialog(a, id)
       \/ handleSaveCompany(a)
       \/ sc_lookup(a)
       \/ sc_write(a)

SlugSpec == Init /\ [][NextSlug]_vars

(***************************************************************************)
(* Admin Schedule page: slot creation                                      *)
(***************************************************************************)

\* selectedProfessionalId ('' is 0) and selectedDate (undefined is NoDate,
\* otherwise the midnight of a calendar day).
NoDate == 0 - 1
SelectedProfessionalIds == {0} \cup ProfessionalIds
SelectedDates == {NoDate, 0, DayLength}

\* if (endTimeDate <= startTimeDate) { toast.error(...); return }
EndNotAfterStart(startTimeDate, endTimeDate) == endTimeDate <= startTimeDate

\* handleCreateTimeSlot with the createAvailableSlot request it sends:
\* without a professional or a date, or with the end not after the start,
\* nothing is sent; otherwise one row is inserted and, on success, the
\* listing is refetched.
handleCreateTimeSlot ==
    /\ last = NoLast
    /\ schedule.pc = "idle"
    /\ Len(available_slots) < MaxSlots
    /\ \E selectedProfessionalId \in SelectedProfessionalIds,
          selectedDate \in SelectedDates,
          startHour \in 0..(HoursPerDay - 1), startMinute \in 0..(MinutesPerHour - 1),
          endHour \in 0..(HoursPerDay - 1), endMinute \in 0..(MinutesPerHour - 1),
          ok \in Responses :
          LET startTimeDate == setHours(selectedDate, startHour, startMinute)
              endTimeDate == setHours(selectedDate, endHour, endMinute)
              c == [fn |-> "handleCreateTimeSlot", pc |-> "done",
                    outcome |-> "rejected", startTime |-> startTimeDate,
                    endTime |-> endTimeDate]
          IN  IF selectedProfessionalId = 0 \/ selectedDate = NoDate
              THEN /\ last' = [fn |-> "handleCreateTimeSlot", pc |-> "done",
                               outcome |-> "rejected", startTime |-> NoDate,
                               endTime |-> NoDate]
                   /\ UNCHANGED <<available_slots, schedule>>
              ELSE IF EndNotAfterStart(startTimeDate, endTimeDate)
              THEN /\ last' = c
                   /\ UNCHANGED <<available_slots, schedule>>
              ELSE IF ok
              THEN /\ available_slots' =
                         Append(available_slots,
                                [professional_id |-> selectedProfessionalId,
                                 start_time |-> startTimeDate,
                                 end_time |-> endTimeDate, is_available |-> TRUE])
                   /\ last' = [c EXCEPT !.outcome = "created"]
                   /\ schedule' = [schedule EXCEPT !.pc = "refetch"]
              ELSE /\ last' = [c EXCEPT !.outcome = "threw"]
                   /\ UNCHANGED <<available_slots, schedule>>
    /\ UNCHANGED <<faulty, booking, removed_slots, professional_services,
                   professionals, services, users, tenancy>>

\* Slots are created from the Schedule page, one at a time and in bulk.
NextCreateSlots ==
    \/ handleCreateTimeSlot
    \/ fetchTimeSlots
    \/ createAvailableSlotsBulk_call
    \/ b_insert
    \/ Forget

CreateSlotsSpec == Init /\ [][NextCreateSlots]_vars

(***************************************************************************)
(* Cancellations overlapping with a re-booking                             *)
(***************************************************************************)

\* updateAppointmentStatus(id, 'cancelled') of part_001 on an appointment
\* that is in the table; calls are issued while other calls are in progress.
cancelAppointment_call(p) ==
    /\ MayCall(p, FALSE)
    /\ \E id \in DOMAIN appointments :
          Issue(p, "u1_fetch",
                [NoCall EXCEPT !.fn = "updateAppointmentStatus1", !.id = id,
                               !.status = "cancelled"])

\* createAppointment of part_000 on a slot that is available when the call
\* is issued, while no other createAppointment is in progress: the one
\* booking that takes a released slot again.
rebookSlot_call(p) ==
    /\ MayCall(p, FALSE)
    /\ RoomForAppointment
    /\ Inserting = {}
    /\ \A q \in Clients : pc[q] # "c0_revert"
    /\ \E slotId \in DOMAIN available_slots :
          /\ available_slots[slotId].is_available
          /\ Issue(p, "c0_slot",
                   [NoCall EXCEPT !.fn = "createAppointment0", !.slotId = slotId,
                                  !.seen = Seen(slotId)])

NextCancel ==
    \/ createAvailableSlot(FALSE)
    \/ \E p \in Clients :
          \/ cancelAppointment_call(p)
          \/ rebookSlot_call(p)
          \/ c0_slot(p) \/ c0_insert(p) \/ c0_revert(p)
          \/ u1_fetch(p) \/ u1_update(p) \/ u1_slot(p)
          \/ Return(p)

CancelSpec == Init /\ [][NextCancel]_vars

(***************************************************************************)
(* Properties                                                              *)
(***************************************************************************)

CreateFns == {"createAppointment0", "createAppointment1"}
UpdateFns == {"updateAppointmentStatus0", "updateAppointmentStatus1"}

\* No call is part-way through.
Quiescent == \A p \in Clients : pc[p] \in {"idle", "done"}

\* C1: whenever no call is part-way through, a slot has is_available = true
\* if and only if no non-cancelled appointment references it.  Stated for
\* non-overlapping calls against a store that answers every request.
C1_SlotAvailableIffNoLiveAppointment ==
    (~faulty /\ Quiescent) =>
        \A s \in DOMAIN available_slots :
            available_slots[s].is_available <=> LiveRefs(appointments, s) = {}

\* C2: after non-overlapping createAppointment and updateAppointmentStatus
\* calls, at most one non-cancelled appointment references any slot.  Stated
\* against a store that answers every request.
C2_AtMostOneLiveAppointmentPerSlot ==
    (~faulty /\ Quiescent) =>
        \A s \in DOMAIN available_slots :
            Cardinality(LiveRefs(appointments, s)) <= 1

\* The finished calls, by what was called.
Done(p, fns) == pc[p] = "done" /\ call[p].fn \in fns

\* A finished createAppointment call that returned success and an id.
Booked(p) == Done(p, CreateFns) /\ result[p].success

\* C3: whatever the interleaving and whatever the slot's flag, a
\* createAppointment call whose store requests all succeed returns success
\* with the id of a row of its own that references its slot: two calls for
\* one slot are both served, each with a row of its own.
C3_UnfailedBookingAlwaysSucceeds ==
    \A p \in Clients :
        (Done(p, CreateFns) /\ call[p].failed = {}) =>
            /\ result[p].success
            /\ result[p].appointmentId \in DOMAIN appointments
            /\ appointments[result[p].appointmentId].slot_id = call[p].slotId
            /\ \A q \in Clients \ {p} :
                  Booked(q) => result[q].appointmentId # result[p].appointmentId

\* Two slot-write-then-insert calls for one slot, each issued while the slot
\* was available and before any row existed, have both returned success and
\* left two confirmed appointments on the slot.
C3_DoubleBooking ==
    \E p, q \in Clients :
        /\ p # q
        /\ Booked(p) /\ Booked(q)
        /\ call[p].fn = "createAppointment0" /\ call[q].fn = "createAppointment0"
        /\ call[p].slotId = call[q].slotId
        /\ call[p].seen = [available |-> TRUE, rows |-> 0]
        /\ call[q].seen = [available |-> TRUE, rows |-> 0]
        /\ result[p].appointmentId # result[q].appointmentId
        /\ appointments[result[p].appointmentId] =
              [slot_id |-> call[p].slotId, status |-> "confirmed"]
        /\ appointments[result[q].appointmentId] =
              [slot_id |-> call[p].slotId, status |-> "confirmed"]

\* C4: a createAppointment call on an available slot, with no store request
\* failing and no other call overlapping, returns success with the id of
\* the one row it added, which is 'confirmed' and references the slot, and
\* leaves the slot with is_available = false.
C4_BookingOfAvailableSlot ==
    \A p \in Clients :
        (Done(p, CreateFns) /\ call[p].failed = {} /\ call[p].seen.available) =>
            /\ result[p].outcome = "returned" /\ result[p].success
            /\ Len(appointments) = Len(call[p].pre.appts) + 1
            /\ result[p].appointmentId = Len(appointments)
            /\ appointments[Len(appointments)] =
                  [slot_id |-> call[p].slotId, status |-> "confirmed"]
            /\ \A a \in DOMAIN call[p].pre.appts :
                  appointments[a] = call[p].pre.appts[a]
            /\ ~available_slots[call[p].slotId].is_available

C4_BookedAvailableSlot ==
    \E p \in Clients :
        /\ Done(p, CreateFns) /\ call[p].failed = {} /\ call[p].seen.available
        /\ call[p].pre.appts # <<>>
        /\ result[p].success

\* C5: when the appointment insert of a createAppointment call fails and,
\* where there is one, the compensating write succeeds, the call returns a
\* failure, has added no appointment row, and the slot has
\* is_available = true (for the call that never wrote the slot: as before).
C5_FailedInsertRestoresSlot ==
    \A p \in Clients :
        (/\ Done(p, CreateFns)
         /\ "insert" \in call[p].failed /\ "revert" \notin call[p].failed
         /\ (call[p].fn = "createAppointment0" \/ call[p].seen.available)) =>
            /\ result[p].outcome = "returned" /\ ~result[p].success
            /\ appointments = call[p].pre.appts
            /\ available_slots[call[p].slotId].is_available

C5_Compensated ==
    \E p \in Clients :
        /\ Done(p, {"createAppointment0"})
        /\ call[p].failed = {"insert"}
        /\ call[p].seen.available
        /\ available_slots[call[p].slotId].is_available

C7_CompensationFailure ==
    \A p \in Clients :
        (/\ Done(p, {"createAppointment0"})
         /\ {"insert", "revert"} \subseteq call[p].failed) =>
            /\ result[p].outcome = "returned" /\ ~result[p].success
            /\ result[p].error = "insertError"
            /\ appointments = call[p].pre.appts
            /\ ~available_slots[call[p].slotId].is_available

\* The slot was available and unreferenced; it is now unavailable and still
\* no appointment references it.
C7_SlotLeftUnavailable ==
    \E p \in Clients :
        /\ Done(p, {"createAppointment0"})
        /\ call[p].failed = {"insert", "revert"}
        /\ call[p].seen.available
        /\ ~available_slots[call[p].slotId].is_available
        /\ \A a \in DOMAIN appointments : appointments[a].slot_id # call[p].slotId

\* The status the appointment of an updateAppointmentStatus call had when
\* the call was issued ("none": no such row).
PriorStatus(p) ==
    IF call[p].id \in DOMAIN call[p].pre.appts
    THEN call[p].pre.appts[call[p].id].status
    ELSE "none"

\* C8: after updateAppointmentStatus(id, 'cancelled') completes without
\* error on an appointment that was 'confirmed' or 'completed', the
\* appointment is 'cancelled' and its slot has is_available = true.  Stated
\* against a store that answers every request.
C8_CancelReleasesSlot ==
    \A p \in Clients :
        (/\ ~faulty
         /\ Done(p, UpdateFns)
         /\ call[p].status = "cancelled"
         /\ call[p].failed = {}
         /\ PriorStatus(p) \in {"confirmed", "completed"}) =>
            /\ appointments[call[p].id].status = "cancelled"
            /\ available_slots[appointments[call[p].id].slot_id].is_available

\* C9: updateAppointmentStatus(id, 'cancelled') on an appointment that is
\* already 'cancelled' changes no slot, and raises no error unless a store
\* request fails.
C9_RepeatedCancelHarmless ==
    \A p \in Clients :
        (/\ Done(p, UpdateFns)
         /\ call[p].status = "cancelled"
         /\ PriorStatus(p) = "cancelled") =>
            /\ available_slots = call[p].pre.slots
            /\ call[p].failed = {} =>
                  result[p].outcome = "returned" /\ result[p].success

\* The repeated cancel (part_001) of an appointment whose former slot is now
\* held by another, live appointment.
C9_RepeatedCancelOfRebookedSlot ==
    \E p \in Clients :
        /\ Done(p, {"updateAppointmentStatus1"})
        /\ call[p].status = "cancelled" /\ PriorStatus(p) = "cancelled"
        /\ call[p].failed = {}
        /\ LiveRefs(appointments, appointments[call[p].id].slot_id) # {}
        /\ ~available_slots[appointments[call[p].id].slot_id].is_available

\* C10: unless the new status is 'cancelled' and the prior status was not,
\* updateAppointmentStatus changes no slot and nothing of the appointments
\* but the status of the one with the given id.
C10_OtherTransitionsLeaveSlots ==
    \A p \in Clients :
        (/\ Done(p, UpdateFns)
         /\ ~(call[p].status = "cancelled"
              /\ PriorStatus(p) \in {"confirmed", "completed"})) =>
            /\ available_slots = call[p].pre.slots
            /\ DOMAIN appointments = DOMAIN call[p].pre.appts
            /\ \A a \in DOMAIN appointments :
                  /\ appointments[a].slot_id = call[p].pre.appts[a].slot_id
                  /\ a # call[p].id =>
                        appointments[a].status = call[p].pre.appts[a].status
                  /\ (a = call[p].id /\ call[p].failed = {}) =>
                        appointments[a].status = call[p].status

\* A cancelled appointment confirmed again (part_001): its slot, released by
\* the cancel, stays as it was.
C10_Reconfirmed ==
    \E p \in Clients :
        /\ Done(p, {"updateAppointmentStatus1"})
        /\ call[p].status = "confirmed" /\ PriorStatus(p) = "cancelled"
        /\ call[p].failed = {}
        /\ appointments[call[p].id].status = "confirmed"
        /\ available_slots[appointments[call[p].id].slot_id].is_available

\* C11 as claimed: no step moves an appointment out of 'completed' or
\* 'cancelled'.
C11_TerminalStatusesStay ==
    [][\A a \in DOMAIN appointments :
          appointments[a].status \in {"completed", "cancelled"} =>
              appointments'[a].status = appointments[a].status]_vars

\* C11 as amended: updateAppointmentStatus restricts no transition.  A call
\* that completes without error on an existing appointment leaves it with
\* the requested status, whatever its status was: 'completed' and
\* 'cancelled' are not terminal.
C11_AnyStatusIsWritten ==
    \A p \in Clients :
        (/\ Done(p, UpdateFns)
         /\ call[p].failed = {}
         /\ PriorStatus(p) # "none") =>
            /\ result[p].outcome = "returned" /\ result[p].success
            /\ appointments[call[p].id].status = call[p].status

\* A 'completed' appointment set back to 'confirmed'.
C11_CompletedReopened ==
    \E p \in Clients :
        /\ Done(p, UpdateFns)
        /\ call[p].failed = {}
        /\ PriorStatus(p) = "completed"
        /\ call[p].status = "confirmed"
        /\ appointments[call[p].id].status = "confirmed"

\* C19: every store failure of createAppointment comes back at once as a
\* returned failure result that carries the store error.
C19_FailureCarriesStoreError ==
    \A p \in Clients :
        (Done(p, CreateFns) /\ call[p].failed # {}) =>
            /\ result[p].outcome = "returned"
            /\ ~result[p].success
            /\ result[p].error # "none"

\* C12: deleteAvailableSlot never removes a slot that has is_available =
\* false or that a non-cancelled appointment references, whatever lands
\* between the page's listing and the delete.  Stated against a store that
\* answers every request.
C12_DeletedOnlyWhileAvailable ==
    ~faulty => \A r \in removed_slots : r.is_available /\ r.live = 0

\* The finished createAvailableSlotsBulk call.
BulkDone == last.fn = "createAvailableSlotsBulk" /\ last.pc = "done"

\* The calendar days from startDate's day to endDate's day whose weekday is
\* selected.
MatchingDays ==
    {d \in DayOf(last.startDate)..DayOf(last.endDate) : d % 7 \in last.selectedDays}

\* The row of day d and entry i of timeRanges.
ExpectedRow(d, i) ==
    [professional_id |-> last.professionalId,
     start_time |-> d * DayLength + last.timeRanges[i].startHour * MinutesPerHour
                        + last.timeRanges[i].startMinute,
     end_time |-> d * DayLength + last.timeRanges[i].endHour * MinutesPerHour
                      + last.timeRanges[i].endMinute,
     is_available |-> TRUE]

\* C13: createAvailableSlotsBulk generates exactly one row for every pair of
\* a matching calendar day (startDate's day to endDate's day inclusive,
\* weekday selected) and an entry of timeRanges: (matching days) x (ranges)
\* rows, each with the professional, is_available = true and that day at
\* the range's hours and minutes.
C13_OneSlotPerDayAndRange ==
    (last.fn = "createAvailableSlotsBulk") =>
        /\ Len(last.slots) = Cardinality(MatchingDays) * Len(last.timeRanges)
        /\ \A d \in MatchingDays, i \in 1..Len(last.timeRanges) :
              Cardinality({k \in 1..Len(last.slots) : last.slots[k] = ExpectedRow(d, i)})
                  = Cardinality({j \in 1..Len(last.timeRanges) :
                                    ExpectedRow(d, j) = ExpectedRow(d, i)})

\* C14: a createAvailableSlotsBulk call that generates no row returns count
\* 0 without an error and without sending an insert; a call that generates
\* rows and returns has sent one insert and returns the number of rows the
\* store reported, which are the rows added to the table.
C14_EmptyGenerationSkipsInsert ==
    BulkDone =>
        /\ Len(last.slots) = 0 =>
              /\ last.outcome = "returned" /\ last.count = 0
              /\ last.requests = 0
              /\ Len(available_slots) = last.rows
        /\ (Len(last.slots) > 0 /\ last.outcome = "returned") =>
              /\ last.requests = 1
              /\ last.count = Len(last.data)
              /\ Len(available_slots) = last.rows + last.count

\* A call whose startDate is after its endDate returned count 0 and sent
\* nothing.
C14_ReversedRangeReturnedZero ==
    /\ BulkDone
    /\ last.startDate > last.endDate
    /\ last.selectedDays # {} /\ Len(last.timeRanges) > 0
    /\ last.outcome = "returned" /\ last.count = 0 /\ last.requests = 0

FetchFns == {"fetchAvailableSlots0", "fetchAvailableSlots1"}

\* C15: fetchAvailableSlots(professionalId, date) returns exactly the rows
\* of that professional with is_available = true whose start_time is on the
\* day of date (from its midnight up to, not including, the next midnight),
\* each once, in ascending start_time.
C15_AvailableSlotsOfTheDay ==
    (last.fn \in FetchFns /\ last.outcome = "returned") =>
        /\ {last.data[i] : i \in 1..Len(last.data)} =
              {s \in DOMAIN last.rows :
                  /\ last.rows[s].professional_id = last.professionalId
                  /\ last.rows[s].is_available
                  /\ DayOf(last.rows[s].start_time) = DayOf(last.date)}
        /\ \A i, j \in 1..Len(last.data) :
              i < j => /\ last.data[i] # last.data[j]
                       /\ last.rows[last.data[i]].start_time
                              <= last.rows[last.data[j]].start_time

\* part_001's listing returned the day's first and last instants in order
\* and left out an available slot of the same professional that starts at
\* the next midnight.
C15_MidnightSlotLeftOut ==
    /\ last.fn = "fetchAvailableSlots1"
    /\ last.outcome = "returned"
    /\ Len(last.data) = 2
    /\ last.rows[last.data[1]].start_time = StartOfDay(last.date)
    /\ last.rows[last.data[2]].start_time = EndOfDay(last.date)
    /\ \E s \in DOMAIN last.rows :
          /\ last.rows[s].professional_id = last.professionalId
          /\ last.rows[s].is_available
          /\ last.rows[s].start_time = NextDay(StartOfDay(last.date))

AssociateFns == {"associateProfessionalService0", "associateProfessionalService1"}
DissociateFns == {"dissociateProfessionalService0", "dissociateProfessionalService1"}

\* C16: associateProfessionalService is idempotent.  Associating a pair that
\* is already associated (the store answers 23505) reports success and
\* leaves the one row of the pair; a first association reports success and
\* adds the row.
C16_AssociateIdempotent ==
    (last.fn \in AssociateFns /\ last.code # "other") =>
        /\ last.outcome = "returned" /\ last.success
        /\ professional_services =
               last.pre \cup {<<last.professionalId, last.serviceId>>}

\* C17: dissociateProfessionalService succeeds when no row matches the
\* pair, and a call that succeeds has removed the row of exactly that
\* (professional_id, service_id) and no other.
C17_DissociateRemovesOnlyThePair ==
    (last.fn \in DissociateFns) =>
        /\ last.code = "none" => last.outcome = "returned" /\ last.success
        /\ last.success =>
              professional_services =
                  last.pre \ {<<last.professionalId, last.serviceId>>}
        /\ ~last.success => professional_services = last.pre

\* A dissociate of a pair that has no row succeeded and left the other
\* service of the same professional associated.
C17_NoMatchSucceeded ==
    /\ last.fn \in DissociateFns
    /\ last.success
    /\ <<last.professionalId, last.serviceId>> \notin last.pre
    /\ \E s \in ServiceIds : <<last.professionalId, s>> \in professional_services

\* C20: getUserByAuth returns null when the store answers PGRST116 (no row
\* matches), throws on every other store error and returns the user
\* otherwise; a missing user comes back as null, never as a throw.
C20_MissingUserIsNull ==
    (last.fn = "getUserByAuth") =>
        /\ last.code = "PGRST116" => last.outcome = "returned" /\ last.data = 0
        /\ last.code = "other" => last.outcome = "threw"
        /\ last.code = "none" => last.outcome = "returned" /\ last.data = last.authId
        /\ (last.outcome = "returned" /\ last.data = 0) => last.authId \notin last.pre

\* A lookup of an auth_id without a row, among existing users, returned null.
C20_LookupOfMissingUser ==
    /\ last.fn = "getUserByAuth"
    /\ last.pre # {}
    /\ last.authId \notin last.pre
    /\ last.outcome = "returned" /\ last.data = 0

DeleteFns == {"deleteProfessional0", "deleteProfessional1",
              "deleteService0", "deleteService1"}
ListFns == {"fetchProfessionals0", "fetchProfessionals1",
            "fetchServices0", "fetchServices1"}

\* The table of professionals or of services, by name.
Catalog(table) == IF table = "professionals" THEN professionals ELSE services

\* C18: deleting a professional or a service is a soft delete.  After a
\* successful deleteProfessional / deleteService of an existing row the row
\* is still in the table with active = false, and a listing returns the
\* rows with active = true and none with active = false.  Stated against a
\* store that answers every request.
C18_DeleteIsSoft ==
    ~faulty =>
    /\ (/\ last.fn \in DeleteFns
        /\ last.success
        /\ last.id \in DOMAIN last.pre
        /\ last.pre[last.id].present) =>
            /\ Catalog(last.table)[last.id].present
            /\ ~Catalog(last.table)[last.id].active
    /\ (last.fn \in ListFns /\ last.outcome = "returned") =>
            last.data = {i \in DOMAIN last.pre :
                            last.pre[i].present /\ last.pre[i].active}

\* C23: whenever createAppointment returns success = false, the store holds
\* no appointment row created by that call.
C23_FailedBookingLeavesNoRow ==
    \A p \in Clients :
        (/\ Done(p, CreateFns)
         /\ result[p].outcome = "returned"
         /\ ~result[p].success) =>
            /\ call[p].data = 0
            /\ appointments = call[p].pre.appts

\* C24: when updateAppointmentStatus of part_001 throws, neither the status
\* of an appointment nor the is_available of a slot has changed.
C24_ThrowChangesNothing ==
    \A p \in Clients :
        (/\ Done(p, {"updateAppointmentStatus1"})
         /\ result[p].outcome = "threw") =>
            /\ appointments = call[p].pre.appts
            /\ available_slots = call[p].pre.slots

\* C25: cancellations of part_001 that overlap, together with a booking of
\* part_000 that takes the released slot again, never end (no call part-way
\* through) with a slot that has is_available = true while a confirmed
\* appointment references it.  Stated against a store that answers every
\* request.
C25_NoReleaseUnderConfirmedBooking ==
    (~faulty /\ Quiescent) =>
        \A s \in DOMAIN available_slots :
            available_slots[s].is_available =>
                \A a \in DOMAIN appointments :
                    appointments[a].slot_id = s => appointments[a].status # "confirmed"

\* C26: every slot row created through the application, by
\* handleCreateTimeSlot or by createAvailableSlotsBulk, has end_time
\* strictly later than start_time.
C26_SlotsEndAfterStart ==
    \A s \in DOMAIN available_slots :
        available_slots[s].end_time > available_slots[s].start_time

\* The ids of the auth users.
AuthUserIds(identities) == {u.id : u \in identities}

\* C29: once createUserForCompany has returned or thrown, the auth user of
\* the call and its users row exist together or not at all; when it
\* returned, both exist and the row has tipo_usuario 'admin' and the
\* auth_id of the auth user.
C29_IdentityAndRowTogether ==
    (last.fn = "createUserForCompany" /\ last.pc = "done") =>
        /\ (last.authId \in AuthUserIds(auth_users)) <=> (last.authId \in users)
        /\ last.outcome = "returned" =>
              /\ last.authId \in AuthUserIds(auth_users)
              /\ last.data.auth_id = last.authId
              /\ last.data.tipo_usuario = "admin"

\* C27: the appointment-success page always leaves its loading state: once
\* the page has been opened without an id, or the request for its id has
\* settled, loading eventually is false and the page shows the details or an
\* error message.
C27_LoadingEnds ==
    (success_page.pc = "settled") ~>
        (~success_page.loading /\ Rendered(success_page) \in {"details", "error"})

\* C28: in useAuth, once a SIGNED_OUT event has been handled and until the
\* next SIGNED_IN event, isAuthenticated is false, userType is null and no
\* userType is stored, also when a checkAuth that started before the
\* sign-out resumes afterwards.
C28_SignedOutStays ==
    auth.signedOut =>
        /\ ~auth.isAuthenticated
        /\ auth.userType = "null"
        /\ auth.stored = "null"

\* C21: every write of handleSavePlan or handleSaveCompany leaves the row
\* it wrote with is_active = true only if the row's plan_expiry_date is
\* absent or later than the time of the write, as isCompanyActive says at
\* that time.  Stated against a store that answers every request.
C21_FlagAgreesAtWrite ==
    [][~faulty =>
       \A id \in DOMAIN companies' :
          (id \notin DOMAIN companies \/ companies'[id] # companies[id]) =>
             (companies'[id].is_active => isCompanyActive(companies'[id], clock))]_vars

\* C22: under every interleaving of handleSaveCompany operations no two
\* company rows have the same slug.  Stated against a store whose requests
\* do not fail (it may or may not refuse a slug that is taken).
C22_SlugsUnique ==
    ~faulty =>
        \A i, j \in DOMAIN companies :
            companies[i].slug = companies[j].slug => i = j

====
